---- MODULE Spec2Model ----
(***************************************************************************)
(* Model of src/data/src/transform.py: the metrics-server to Prometheus    *)
(* transformer (json2dict, val2base, trans_node_metrics,                   *)
(* trans_pod_metrics) and the Flask handlers /metrics and /healthz.        *)
(*                                                                         *)
(* Python values are modelled as follows.                                  *)
(*   str   a sequence of one-character strings                             *)
(*   int   an unbounded integer, kept as its big-endian sequence of        *)
(*         decimal digits without leading zeros (<<0>> is zero)            *)
(*   an exception leaving a function is an outcome of that function        *)
(***************************************************************************)
EXTENDS Integers, Sequences, FiniteSets, TLC

VARIABLES
    string,     \* val2base: the argument
    ret,        \* val2base: the outcome, or Pending before the call
    branch,     \* val2base: the return statement that was executed (0: none)
    fn,         \* the function applied: json2dict, trans_node_metrics, trans_pod_metrics
    arg,        \* its argument, an input text
    result,     \* its outcome, or NotCalled before the call
    route,      \* the path of the request the application is serving ("": none yet)
    req,        \* what the two upstream fetches of the handler gave
    response    \* the response to the request, or NoResponse while it is served

valVars == <<string, ret, branch>>
fnVars == <<fn, arg, result>>
appVars == <<route, req, response>>
vars == <<string, ret, branch, fn, arg, result, route, req, response>>

(***************************************************************************)
(* Bounds of the model.                                                    *)
(***************************************************************************)
\* longest argument of val2base that is enumerated
MaxLen == 4
\* most items in an enumerated node or pod document
MaxItems == 2
\* most containers in an enumerated pod made of well-formed containers
MaxContainers == 2
\* most items in a body the upstream serves to the /metrics handler
MaxBodyItems == 1

(***************************************************************************)
(* Characters.                                                             *)
(***************************************************************************)
Digits == {"0", "1", "2", "3", "4", "5", "6", "7", "8", "9"}

\* the characters the enumerated arguments of val2base are built from
Alphabet == {"0", "5", "K", "k", "i", "I", "M", "m", "G", "g", "s", "S", "\n", "x"}

\* case folding of re.IGNORECASE on the letters of the five patterns
Lower(c) ==
    CASE c = "K" -> "k"
      [] c = "I" -> "i"
      [] c = "M" -> "m"
      [] c = "G" -> "g"
      [] c = "S" -> "s"
      [] OTHER -> c

DigitVal(c) ==
    CASE c = "0" -> 0 [] c = "1" -> 1 [] c = "2" -> 2 [] c = "3" -> 3
      [] c = "4" -> 4 [] c = "5" -> 5 [] c = "6" -> 6 [] c = "7" -> 7
      [] c = "8" -> 8 [] c = "9" -> 9

DigitChar(d) ==
    CASE d = 0 -> "0" [] d = 1 -> "1" [] d = 2 -> "2" [] d = 3 -> "3"
      [] d = 4 -> "4" [] d = 5 -> "5" [] d = 6 -> "6" [] d = 7 -> "7"
      [] d = 8 -> "8" [] d = 9 -> "9"

StringsUpTo(n) == UNION {[1..k -> Alphabet] : k \in 0..n}

(***************************************************************************)
(* Python int: unbounded, as decimal digits.                               *)
(***************************************************************************)
Reverse(s) == [i \in 1..Len(s) |-> s[Len(s) + 1 - i]]

RECURSIVE StripZeros(_)
StripZeros(ds) ==
    IF Len(ds) > 1 /\ Head(ds) = 0 THEN StripZeros(Tail(ds)) ELSE ds

\* int(text) of a non-empty string of ASCII digits
int(text) == StripZeros([i \in 1..Len(text) |-> DigitVal(text[i])])

\* least significant digit first: le * k + carry
RECURSIVE MulLE(_, _, _)
MulLE(le, k, carry) ==
    IF le = <<>>
    THEN IF carry = 0 THEN <<>> ELSE <<carry % 10>> \o MulLE(<<>>, k, carry \div 10)
    ELSE LET t == Head(le) * k + carry
         IN  <<t % 10>> \o MulLE(Tail(le), k, t \div 10)

\* a * k for an int a and a machine-sized factor k
IntMul(a, k) == StripZeros(Reverse(MulLE(Reverse(a), k, 0)))

\* str(a) of an int a, as '{}'.format renders it
IntStr(a) == [i \in 1..Len(a) |-> DigitChar(a[i])]

(***************************************************************************)
(* Outcomes of val2base.                                                   *)
(***************************************************************************)
Pending == [kind |-> "pending", int |-> <<>>, str |-> <<>>, exc |-> ""]
RetInt(a) == [kind |-> "int", int |-> a, str |-> <<>>, exc |-> ""]
RetStr(s) == [kind |-> "str", int |-> <<>>, str |-> s, exc |-> ""]
Raise(e) == [kind |-> "raise", int |-> <<>>, str |-> <<>>, exc |-> e]

(***************************************************************************)
(* re.search with the five patterns of val2base.                           *)
(***************************************************************************)
NoMatch == [matched |-> FALSE, g1 |-> <<>>, g2 |-> <<>>]

\* the positions where '$' matches: the end of the string, and just before a
\* newline that is the last character
DollarEnds(s) ==
    {Len(s)} \cup (IF Len(s) > 0 /\ s[Len(s)] = "\n" THEN {Len(s) - 1} ELSE {})

\* the length of the longest run of digits starting at position from
RECURSIVE DigitRun(_, _)
DigitRun(s, from) ==
    IF from <= Len(s) /\ s[from] \in Digits THEN 1 + DigitRun(s, from + 1) ELSE 0

\* '^([0-9]+)<suffix>$' against s whose leading run of digits has length p
SuffixAfter(s, suffix, p) ==
    IF /\ p >= 1
       /\ p + Len(suffix) \in DollarEnds(s)
       /\ \A i \in 1..Len(suffix) : Lower(s[p + i]) = suffix[i]
    THEN [matched |-> TRUE, g1 |-> SubSeq(s, 1, p), g2 |-> <<>>]
    ELSE NoMatch

\* re.search('^([0-9]+)<suffix>$', s, re.IGNORECASE), suffix in lower case
SearchSuffix(s, suffix) == SuffixAfter(s, suffix, DigitRun(s, 1))

\* re.search('^([0-9]+)Ki$', string, re.IGNORECASE)
SearchKi(s) == SearchSuffix(s, <<"k", "i">>)

\* re.search('^([0-9]+)Mi$', string, re.IGNORECASE)
SearchMi(s) == SearchSuffix(s, <<"m", "i">>)

\* re.search('^([0-9]+)Gi$', string, re.IGNORECASE)
SearchGi(s) == SearchSuffix(s, <<"g", "i">>)

\* '^([0-9]+)m([0-9]+)s$' against s whose leading run of digits has length p
\* and whose run of digits after the next character has length q
MinSecAfter(s, p, q) ==
    IF /\ p >= 1
       /\ p + 1 <= Len(s)
       /\ Lower(s[p + 1]) = "m"
       /\ q >= 1
       /\ p + q + 2 \in DollarEnds(s)
       /\ Lower(s[p + q + 2]) = "s"
    THEN [matched |-> TRUE, g1 |-> SubSeq(s, 1, p), g2 |-> SubSeq(s, p + 2, p + q + 1)]
    ELSE NoMatch

\* re.search('^([0-9]+)m([0-9]+)s$', string, re.IGNORECASE)
SearchMinSec(s) == MinSecAfter(s, DigitRun(s, 1), DigitRun(s, DigitRun(s, 1) + 2))

\* the minutes pattern without its '$': '^([0-9]+)m'
SearchMinUnanchored(s) ==
    IF DigitRun(s, 1) >= 1 /\ DigitRun(s, 1) + 1 <= Len(s) /\ Lower(s[DigitRun(s, 1) + 1]) = "m"
    THEN [matched |-> TRUE, g1 |-> SubSeq(s, 1, DigitRun(s, 1)), g2 |-> <<>>]
    ELSE NoMatch

\* re.search('^([0-9]+)m$', string, re.IGNORECASE)
SearchMin(s) == SearchSuffix(s, <<"m">>)

\* truth value of a str: non-empty
Truthy(text) == text # <<>>

(***************************************************************************)
(* val2base                                                                *)
(***************************************************************************)
\* the return statements of val2base, in source order
ReturnKi == 1
ReturnMi == 2
ReturnGi == 3
ReturnMinSec == 4
ReturnMin == 5
ReturnString == 6

\* what each return statement evaluates to
ValueKi(val) == RetInt(IntMul(int(val.g1), 1024))
ValueMi(val) == RetInt(IntMul(int(val.g1), 1024 * 1024))
\* 1024*1024*1024 applied as two factors, each within TLC's integers
ValueGi(val) == RetInt(IntMul(IntMul(int(val.g1), 1024 * 1024), 1024))
\* int(val.group(1))*60 + val.group(2): int + str raises TypeError
ValueMinSec(val) == Raise("TypeError")
ValueMin(val) == RetInt(IntMul(int(val.g1), 60))

\* the chain of tests, given what the five searches found
Returns(s, ki, mi, gi, ms, mn) ==
    IF ki.matched /\ Truthy(ki.g1) THEN [at |-> ReturnKi, out |-> ValueKi(ki)]
    ELSE IF mi.matched /\ Truthy(mi.g1) THEN [at |-> ReturnMi, out |-> ValueMi(mi)]
    ELSE IF gi.matched /\ Truthy(gi.g1) THEN [at |-> ReturnGi, out |-> ValueGi(gi)]
    ELSE IF ms.matched /\ Truthy(ms.g1) /\ Truthy(ms.g2)
         THEN [at |-> ReturnMinSec, out |-> ValueMinSec(ms)]
    ELSE IF mn.matched /\ Truthy(mn.g1) THEN [at |-> ReturnMin, out |-> ValueMin(mn)]
    ELSE [at |-> ReturnString, out |-> RetStr(s)]

\* the statement that returns, and what it returns
val2baseRun(s) ==
    Returns(s, SearchKi(s), SearchMi(s), SearchGi(s), SearchMinSec(s), SearchMin(s))

val2base(s) == val2baseRun(s).out

(***************************************************************************)
(* JSON documents, as json.loads returns them: None, int, str, list, dict. *)
(* A dict is a function from its keys to its values.                       *)
(***************************************************************************)
JNone == [t |-> "None"]
JInt(a) == [t |-> "int", n |-> a]
JStr(s) == [t |-> "str", s |-> s]
JList(l) == [t |-> "list", l |-> l]
JDict(d) == [t |-> "dict", d |-> d]

EmptyDict == JDict(<<>>)
EmptyList == JList(<<>>)
EmptyStr == JStr(<<>>)

\* an input text: not JSON at all (raw names it), or the JSON text of doc
NotJson(raw) == [valid |-> FALSE, raw |-> raw, doc |-> JNone]
JsonText(doc) == [valid |-> TRUE, raw |-> "(json)", doc |-> doc]

\* outcome of an expression: a value, or the exception it raises
Ok(v) == [exc |-> "", v |-> v]
Err(e) == [exc |-> e, v |-> JNone]

\* json.loads(data) on a str: the document, or ValueError
json_loads(data) == IF data.valid THEN Ok(data.doc) ELSE Err("ValueError")

\* the try/except of json2dict around the outcome of json.loads
ExceptValueError(r) ==
    IF r.exc = "" THEN Ok(r.v)
    ELSE IF r.exc = "ValueError" THEN Ok(EmptyDict)
    ELSE Err(r.exc)

\* json2dict(data): dict() unless json.loads returns; only ValueError is caught
json2dict(data) == ExceptValueError(json_loads(data))

\* x.get(key, default): only a dict has the attribute get
get(x, key, default) ==
    IF x.t # "dict" THEN Err("AttributeError")
    ELSE Ok(IF key \in DOMAIN x.d THEN x.d[key] ELSE default)

\* a.get(k2, '') where a is the outcome of the first get
getNext(a, k2) == IF a.exc # "" THEN a ELSE get(a.v, k2, EmptyStr)

\* x.get(k1, []).get(k2, '')
get2(x, k1, k2) == getNext(get(x, k1, EmptyList), k2)

\* the keys of a dict, each once (a key is held whole, as a one-element str)
RECURSIVE KeySeq(_)
KeySeq(ks) ==
    IF ks = {} THEN <<>>
    ELSE LET k == CHOOSE x \in ks : TRUE IN <<JStr(<<k>>)>> \o KeySeq(ks \ {k})

\* the elements 'for e in x' visits, or TypeError for a value that is not iterable
Iterate(x) ==
    CASE x.t = "list" -> Ok(x.l)
      [] x.t = "dict" -> Ok(KeySeq(DOMAIN x.d))
      [] x.t = "str" -> Ok([i \in 1..Len(x.s) |-> JStr(<<x.s[i]>>)])
      [] OTHER -> Err("TypeError")

\* the exception of the first expression, in evaluation order, that raises
RECURSIVE FirstExc(_)
FirstExc(rs) ==
    IF rs = <<>> THEN ""
    ELSE IF Head(rs).exc # "" THEN Head(rs).exc ELSE FirstExc(Tail(rs))

\* val2base(x): re.search raises TypeError on anything but a str
val2baseOf(x) == IF x.t = "str" THEN val2base(x.s) ELSE Raise("TypeError")

\* '{}'.format(x) of a label value
FormatJ(x) ==
    CASE x.t = "str" -> x.s
      [] x.t = "int" -> IntStr(x.n)
      [] x.t = "None" -> <<"N", "o", "n", "e">>

\* '{}'.format(v) of what val2base returned
FormatVal(v) == IF v.kind = "int" THEN IntStr(v.int) ELSE v.str

(***************************************************************************)
(* Lines of exposition text.  A text is the sequence of its lines: the     *)
(* documents enumerated below hold no newline in a label or a usage value, *)
(* so '\n'.join(lines) has exactly the lines joined.                       *)
(***************************************************************************)
Header(kind, name, text) ==
    [kind |-> kind, name |-> name, labels |-> <<>>, value |-> <<>>, text |-> text]

Series(name, labels, value) ==
    [kind |-> "series", name |-> name, labels |-> labels, value |-> value, text |-> ""]

Plain(text) ==
    [kind |-> "plain", name |-> "", labels |-> <<>>, value |-> <<>>, text |-> text]

Label(k, v) == [k |-> k, v |-> v]

\* cpu + mem, joined
JoinMemFirst(cpu, mem) == mem \o cpu

\* '\n'.join(cpu + mem)
Join(cpu, mem) == cpu \o mem

Rendered(lines) == [exc |-> "", lines |-> lines]
Raised(e) == [exc |-> e, lines |-> <<>>]

(***************************************************************************)
(* trans_node_metrics                                                      *)
(***************************************************************************)
NodeName(f) == IF f = "cpu" THEN "kube_metrics_server_node_cpu" ELSE "kube_metrics_server_node_mem"

NodeCpuHeader ==
    << Header("HELP", NodeName("cpu"), "The CPU time of a node in seconds."),
       Header("TYPE", NodeName("cpu"), "gauge") >>

NodeMemHeader ==
    << Header("HELP", NodeName("mem"), "The memory of a node in Bytes."),
       Header("TYPE", NodeName("mem"), "gauge") >>

\* tpl.format(f, node, created, timestamp, window, raw, value)
NodeTpl(f, lbl, raw, value) ==
    Series(NodeName(f),
           << Label("node", FormatJ(lbl.node)), Label("created", FormatJ(lbl.created)),
              Label("timestamp", FormatJ(lbl.timestamp)), Label("window", FormatJ(lbl.window)),
              Label("debugval", FormatJ(raw)) >>,
           FormatVal(value))

NoLines(e) == [exc |-> e, cpu |-> <<>>, mem |-> <<>>]

\* the two appends of the loop body, given what val2base gave for cpu and mem
NodeAppend(lbl, cpu, mem, vc, vm) ==
    IF vc.kind = "raise" THEN NoLines(vc.exc)
    ELSE IF vm.kind = "raise" THEN NoLines(vm.exc)
    ELSE [exc |-> "",
          cpu |-> <<NodeTpl("cpu", lbl, cpu, vc)>>,
          mem |-> <<NodeTpl("mem", lbl, mem, vm)>>]

\* the loop body, given the outcomes of its six lookups
NodeLookedUp(name, created, timestamp, window, cpu, mem) ==
    IF FirstExc(<<name, created, timestamp, window, cpu, mem>>) # ""
    THEN NoLines(FirstExc(<<name, created, timestamp, window, cpu, mem>>))
    ELSE NodeAppend([node |-> name.v, created |-> created.v,
                     timestamp |-> timestamp.v, window |-> window.v],
                    cpu.v, mem.v, val2baseOf(cpu.v), val2baseOf(mem.v))

\* one pass of the loop body: the two lines appended, or the exception raised
NodeBody(node) ==
    NodeLookedUp(get2(node, "metadata", "name"),
                 get2(node, "metadata", "creationTimestamp"),
                 get(node, "timestamp", EmptyStr),
                 get(node, "window", EmptyStr),
                 get2(node, "usage", "cpu"),
                 get2(node, "usage", "memory"))

\* the loop over the items, from the lists built so far
RECURSIVE NodeLoop(_, _, _)
NodeNext(items, cpu, mem, b) ==
    IF b.exc # "" THEN b ELSE NodeLoop(Tail(items), cpu \o b.cpu, mem \o b.mem)

NodeLoop(items, cpu, mem) ==
    IF items = <<>> THEN [exc |-> "", cpu |-> cpu, mem |-> mem]
    ELSE NodeNext(items, cpu, mem, NodeBody(Head(items)))

\* what 'for x in data.get('items', [])' visits, given the outcome of the get
ItemsVisited(items) == IF items.exc # "" THEN items ELSE Iterate(items.v)

\* what the loop over data.get('items', []) visits, given json2dict's outcome
ItemsOf(d) ==
    IF d.exc # "" THEN d ELSE ItemsVisited(get(d.v, "items", EmptyList))

\* the return statement, given the outcome of the loop
Returned(r) == IF r.exc # "" THEN Raised(r.exc) ELSE Rendered(Join(r.cpu, r.mem))

NodeRender(it) ==
    IF it.exc # "" THEN Raised(it.exc)
    ELSE Returned(NodeLoop(it.v, NodeCpuHeader, NodeMemHeader))

trans_node_metrics(text) == NodeRender(ItemsOf(json2dict(text)))

(***************************************************************************)
(* trans_pod_metrics                                                       *)
(***************************************************************************)
PodName(f) == IF f = "cpu" THEN "kube_metrics_server_pod_cpu" ELSE "kube_metrics_server_pod_mem"

PodCpuHeader ==
    << Header("HELP", PodName("cpu"), "The CPU time of a pod in seconds."),
       Header("TYPE", PodName("cpu"), "gauge") >>

PodMemHeader ==
    << Header("HELP", PodName("mem"), "The memory of a pod in Bytes."),
       Header("TYPE", PodName("mem"), "gauge") >>

\* tpl.format(f, pod, cont, ns, created, timestamp, window, raw, value)
PodTpl(f, lbl, cont, raw, value) ==
    Series(PodName(f),
           << Label("pod", FormatJ(lbl.pod)), Label("container", FormatJ(cont)),
              Label("namespace", FormatJ(lbl.ns)), Label("created", FormatJ(lbl.created)),
              Label("timestamp", FormatJ(lbl.timestamp)), Label("window", FormatJ(lbl.window)),
              Label("debugval", FormatJ(raw)) >>,
           FormatVal(value))

\* the two appends of the inner loop body
ContainerAppend(lbl, cont, cpu, mem, vc, vm) ==
    IF vc.kind = "raise" THEN NoLines(vc.exc)
    ELSE IF vm.kind = "raise" THEN NoLines(vm.exc)
    ELSE [exc |-> "",
          cpu |-> <<PodTpl("cpu", lbl, cont, cpu, vc)>>,
          mem |-> <<PodTpl("mem", lbl, cont, mem, vm)>>]

\* the inner loop body, given the outcomes of its three lookups
ContainerLookedUp(lbl, cont, cpu, mem) ==
    IF FirstExc(<<cont, cpu, mem>>) # "" THEN NoLines(FirstExc(<<cont, cpu, mem>>))
    ELSE ContainerAppend(lbl, cont.v, cpu.v, mem.v, val2baseOf(cpu.v), val2baseOf(mem.v))

\* one pass of the inner loop body
ContainerBody(lbl, container) ==
    ContainerLookedUp(lbl, get(container, "name", EmptyStr),
                      get2(container, "usage", "cpu"),
                      get2(container, "usage", "memory"))

\* the inner loop over the containers of one pod, from the lists built so far
RECURSIVE ContainerLoop(_, _, _, _)
ContainerNext(lbl, containers, cpu, mem, b) ==
    IF b.exc # "" THEN b
    ELSE ContainerLoop(lbl, Tail(containers), cpu \o b.cpu, mem \o b.mem)

ContainerLoop(lbl, containers, cpu, mem) ==
    IF containers = <<>> THEN [exc |-> "", cpu |-> cpu, mem |-> mem]
    ELSE ContainerNext(lbl, containers, cpu, mem, ContainerBody(lbl, Head(containers)))

\* 'for container in pod.get('containers', [])', given what it visits
ContainersVisited(lbl, it, cpu, mem) ==
    IF it.exc # "" THEN NoLines(it.exc) ELSE ContainerLoop(lbl, it.v, cpu, mem)

\* the outer loop body, given the outcomes of its five lookups
PodLookedUp(pod, cpu, mem, name, ns, created, timestamp, window) ==
    IF FirstExc(<<name, ns, created, timestamp, window>>) # ""
    THEN NoLines(FirstExc(<<name, ns, created, timestamp, window>>))
    ELSE ContainersVisited([pod |-> name.v, ns |-> ns.v, created |-> created.v,
                            timestamp |-> timestamp.v, window |-> window.v],
                           ItemsVisited(get(pod, "containers", EmptyList)), cpu, mem)

\* one pass of the outer loop body, from the lists built so far
PodBody(pod, cpu, mem) ==
    PodLookedUp(pod, cpu, mem,
                get2(pod, "metadata", "name"),
                get2(pod, "metadata", "namespace"),
                get2(pod, "metadata", "creationTimestamp"),
                get(pod, "timestamp", EmptyStr),
                get(pod, "window", EmptyStr))

\* the outer loop over the items
RECURSIVE PodLoop(_, _, _)
PodNext(items, b) == IF b.exc # "" THEN b ELSE PodLoop(Tail(items), b.cpu, b.mem)

PodLoop(items, cpu, mem) ==
    IF items = <<>> THEN [exc |-> "", cpu |-> cpu, mem |-> mem]
    ELSE PodNext(items, PodBody(Head(items), cpu, mem))

PodRender(it) ==
    IF it.exc # "" THEN Raised(it.exc)
    ELSE Returned(PodLoop(it.v, PodCpuHeader, PodMemHeader))

trans_pod_metrics(text) == PodRender(ItemsOf(json2dict(text)))

(***************************************************************************)
(* The documents that are enumerated.                                      *)
(***************************************************************************)
SeqsUpTo(S, n) == UNION {[1..k -> S] : k \in 0..n}

Without(d, k) == [x \in (DOMAIN d) \ {k} |-> d[x]]

\* the dict x without key k, and without key k2 of its member k1
Drop(x, k) == JDict(Without(x.d, k))
DropIn(x, k1, k2) == JDict([x.d EXCEPT ![k1] = Drop(x.d[k1], k2)])

Usage(cpu, mem) == JDict([cpu |-> JStr(cpu), memory |-> JStr(mem)])

Created == <<"2", "0", "1", "8">>
Stamp == <<"1", "2", ":", "0", "0">>
Window == <<"3", "0", "s">>

Cpu250m == <<"2", "5", "0", "m">>
Cpu5m == <<"5", "m">>
Cpu1m0s == <<"1", "m", "0", "s">>
Mem2048Ki == <<"2", "0", "4", "8", "K", "i">>
Mem1Gi == <<"1", "G", "i">>
Mem15Mi == <<"1", "5", "M", "i">>
Abc == <<"a", "b", "c">>

\* input texts that are not JSON
BadTexts == {NotJson(""), NotJson("{"), NotJson("not json")}

\* JSON texts of a value that is not an object
NonObjectTexts ==
    {JsonText(JNone), JsonText(EmptyList), JsonText(JInt(<<5>>)), JsonText(JStr(<<"x">>))}

\* JSON objects without items, or whose items is not a list
NoListTexts ==
    { JsonText(EmptyDict),
      JsonText(JDict([kind |-> JStr(<<"L">>)])),
      JsonText(JDict([items |-> JNone])),
      JsonText(JDict([items |-> JInt(<<5>>)])),
      JsonText(JDict([items |-> EmptyStr])),
      JsonText(JDict([items |-> JStr(<<"a", "b">>)])),
      JsonText(JDict([items |-> EmptyDict])),
      JsonText(JDict([items |-> JDict([a |-> JInt(<<1>>)])])) }

ItemsText(l) == JsonText(JDict([items |-> JList(l)]))

NodeFull(name, cpu, mem) ==
    JDict([metadata |-> JDict([name |-> JStr(name), creationTimestamp |-> JStr(Created)]),
           timestamp |-> JStr(Stamp),
           window |-> JStr(Window),
           usage |-> Usage(cpu, mem)])

NodeBase == NodeFull(<<"n", "1">>, Cpu250m, Mem2048Ki)

\* nodes with every field, whose usage val2base returns for
NodeGood == {NodeBase, NodeFull(<<"n", "2">>, Cpu5m, Mem1Gi), NodeFull(<<"n", "3">>, Abc, <<>>)}

\* a node whose cpu usage is minutes and seconds
NodeMinSec == NodeFull(<<"n", "4">>, Cpu1m0s, Mem15Mi)

\* NodeBase with one field missing, and a node with no field at all
NodeMissing ==
    { Drop(NodeBase, "metadata"), DropIn(NodeBase, "metadata", "name"),
      DropIn(NodeBase, "metadata", "creationTimestamp"),
      Drop(NodeBase, "timestamp"), Drop(NodeBase, "window"),
      Drop(NodeBase, "usage"), DropIn(NodeBase, "usage", "cpu"),
      DropIn(NodeBase, "usage", "memory"), EmptyDict }

NodeItems == NodeGood \cup {NodeMinSec} \cup NodeMissing \cup {JInt(<<5>>)}

NodeTextsUpTo(n) ==
    BadTexts \cup NonObjectTexts \cup NoListTexts
        \cup {ItemsText(l) : l \in SeqsUpTo(NodeItems, n)}

ContFull(name, cpu, mem) == JDict([name |-> JStr(name), usage |-> Usage(cpu, mem)])

ContBase == ContFull(<<"c", "1">>, Cpu250m, Mem2048Ki)

ContGood == {ContBase, ContFull(<<"c", "2">>, Cpu5m, Mem1Gi)}

\* a minutes-and-seconds container, ContBase with one field missing, a
\* container with no field, and a container that is not an object
ContOther ==
    { ContFull(<<"c", "3">>, Cpu1m0s, Mem15Mi),
      Drop(ContBase, "name"), Drop(ContBase, "usage"),
      DropIn(ContBase, "usage", "cpu"), DropIn(ContBase, "usage", "memory"),
      EmptyDict, JInt(<<5>>) }

\* container lists: of well-formed containers, and with one other container,
\* alone or after a well-formed one
ContLists(n) ==
    SeqsUpTo(ContGood, n) \cup {<<c>> : c \in ContOther}
        \cup {<<ContBase, c>> : c \in ContOther}

PodMeta(name) ==
    JDict([name |-> JStr(name), namespace |-> JStr(<<"n", "s">>),
           creationTimestamp |-> JStr(Created)])

PodFull(name, containers) ==
    JDict([metadata |-> PodMeta(name),
           timestamp |-> JStr(Stamp),
           window |-> JStr(Window),
           containers |-> JList(containers)])

PodBase == PodFull(<<"p", "2">>, <<ContBase>>)

\* PodBase with one field missing or containers not a list, a pod with no
\* field, and a pod that is not an object
PodOther ==
    { Drop(PodBase, "metadata"), DropIn(PodBase, "metadata", "name"),
      DropIn(PodBase, "metadata", "namespace"),
      DropIn(PodBase, "metadata", "creationTimestamp"),
      Drop(PodBase, "timestamp"), Drop(PodBase, "window"), Drop(PodBase, "containers"),
      JDict([PodBase.d EXCEPT !["containers"] = JInt(<<5>>)]),
      EmptyDict, JInt(<<5>>) }

PodItems(n) ==
    {PodFull(<<"p", "1">>, cl) : cl \in ContLists(n)} \cup {PodBase} \cup PodOther

PodTextsUpTo(n, m) ==
    BadTexts \cup NonObjectTexts \cup NoListTexts
        \cup {ItemsText(l) : l \in SeqsUpTo(PodItems(m), n)}

(***************************************************************************)
(* The Flask application: /metrics, /healthz and /.                        *)
(***************************************************************************)
Response(body, status, mimetype) == [status |-> status, mimetype |-> mimetype, body |-> body]

NoResponse == Response(<<>>, 0, "")

\* what Flask answers when the handler raises
InternalServerError == Response(<<Plain("Internal Server Error")>>, 500, "text/html")

\* requests.get(url): a response, or an exception when the upstream is not reached
Fetched(status_code, text) == [exc |-> "", status_code |-> status_code, text |-> text]
FetchFailed == [exc |-> "ConnectionError", status_code |-> 0, text |-> NotJson("")]
NotFetched == [exc |-> "not fetched", status_code |-> 0, text |-> NotJson("")]

NoReq == [nodes |-> NotFetched, pods |-> NotFetched]

\* prom['nodes'] + '\n' + prom['pods'], as lines
ConcatTexts(nodes, pods) == nodes \o pods

\* the Response of metrics(), given what the two renderers gave
MetricsResponse(nodes, pods) ==
    IF nodes.exc # "" \/ pods.exc # "" THEN InternalServerError
    ELSE Response(ConcatTexts(nodes.lines, pods.lines), 200, "text/plain")

\* metrics(), given the outcomes of its two fetches
metrics(r) ==
    IF r.nodes.exc # "" \/ r.pods.exc # "" THEN InternalServerError
    ELSE MetricsResponse(trans_node_metrics(r.nodes.text), trans_pod_metrics(r.pods.text))

\* healthz() with the pods check leaving the nodes verdict behind
healthzPodsOnly(r) ==
    IF r.nodes.exc # "" \/ r.pods.exc # "" THEN InternalServerError
    ELSE IF r.pods.status_code # 200
         THEN Response(<<Plain("failed")>>, 503, "text/plain")
         ELSE Response(<<Plain("ok")>>, 200, "text/plain")

\* 'if req[...].status_code != 200': the verdict so far h, after one check
HealthCheck(h, status_code) ==
    IF status_code # 200 THEN [health |-> "failed", status |-> 503] ELSE h

\* healthz(), given the outcomes of its two fetches
healthz(r) ==
    IF r.nodes.exc # "" \/ r.pods.exc # "" THEN InternalServerError
    ELSE Response(
           <<Plain(HealthCheck(HealthCheck([health |-> "ok", status |-> 200],
                                           r.nodes.status_code),
                               r.pods.status_code).health)>>,
           HealthCheck(HealthCheck([health |-> "ok", status |-> 200],
                                   r.nodes.status_code),
                       r.pods.status_code).status,
           "text/plain")

\* index(): the static page
index == Response(<<Plain("<html>metrics-server-prom</html>")>>, 200, "text/html")

Routes == {"/metrics", "/healthz", "/"}

\* status codes an upstream answers with
StatusCodes == {200, 204, 404, 500, 503}

\* the bodies the upstream serves to /metrics
BodyNodeItems == {NodeBase, NodeMinSec, Drop(NodeBase, "usage")}
BodyPodItems ==
    {PodBase, PodFull(<<"p", "1">>, <<ContBase, ContFull(<<"c", "3">>, Cpu1m0s, Mem15Mi)>>),
     Drop(PodBase, "metadata")}

NodeBodies ==
    BadTexts \cup NonObjectTexts \cup NoListTexts
        \cup {ItemsText(l) : l \in SeqsUpTo(BodyNodeItems, MaxBodyItems)}
PodBodies ==
    BadTexts \cup NonObjectTexts \cup NoListTexts
        \cup {ItemsText(l) : l \in SeqsUpTo(BodyPodItems, MaxBodyItems)}

\* the outcomes of the two fetches: the second is not made when the first raises
Fetches(nodes, pods) ==
    {[nodes |-> FetchFailed, pods |-> NotFetched]}
        \cup {[nodes |-> n, pods |-> p] : n \in nodes, p \in pods \cup {FetchFailed}}

MetricsFetches ==
    Fetches({Fetched(s, b) : s \in {200, 503}, b \in NodeBodies},
            {Fetched(s, b) : s \in {200, 503}, b \in PodBodies})

HealthzFetches ==
    Fetches({Fetched(s, NotJson("")) : s \in StatusCodes},
            {Fetched(s, NotJson("")) : s \in StatusCodes})

(***************************************************************************)
(* Idle values of the variables a specification does not use.              *)
(***************************************************************************)
NotCalled == [exc |-> "not called"]

ValIdle == string = <<>> /\ ret = Pending /\ branch = 0
FnIdle == fn = "" /\ arg = NotJson("") /\ result = NotCalled
AppIdle == route = "" /\ req = NoReq /\ response = NoResponse

(***************************************************************************)
(* Specification of val2base as a function of its argument.                *)
(***************************************************************************)
InitVal ==
    /\ string \in StringsUpTo(MaxLen)
    /\ ret = Pending
    /\ branch = 0
    /\ FnIdle
    /\ AppIdle

CallVal2base ==
    /\ ret = Pending
    /\ ret' = val2base(string)
    /\ branch' = val2baseRun(string).at
    /\ UNCHANGED <<string, fnVars, appVars>>

NextVal == CallVal2base

SpecVal == InitVal /\ [][NextVal]_vars

(***************************************************************************)
(* Specification of json2dict and the two renderers as functions of their  *)
(* argument.                                                               *)
(***************************************************************************)
InitRender ==
    /\ \/ fn = "json2dict" /\ arg \in NodeTextsUpTo(MaxItems)
       \/ fn = "trans_node_metrics" /\ arg \in NodeTextsUpTo(MaxItems)
       \/ fn = "trans_pod_metrics" /\ arg \in PodTextsUpTo(MaxItems, MaxContainers)
    /\ result = NotCalled
    /\ ValIdle
    /\ AppIdle

CallJson2dict ==
    /\ fn = "json2dict" /\ result = NotCalled
    /\ result' = json2dict(arg)
    /\ UNCHANGED <<fn, arg, valVars, appVars>>

CallTransNode ==
    /\ fn = "trans_node_metrics" /\ result = NotCalled
    /\ result' = trans_node_metrics(arg)
    /\ UNCHANGED <<fn, arg, valVars, appVars>>

CallTransPod ==
    /\ fn = "trans_pod_metrics" /\ result = NotCalled
    /\ result' = trans_pod_metrics(arg)
    /\ UNCHANGED <<fn, arg, valVars, appVars>>

NextRender == CallJson2dict \/ CallTransNode \/ CallTransPod

SpecRender == InitRender /\ [][NextRender]_vars

(***************************************************************************)
(* Specification of the application: requests arrive one at a time and     *)
(* each is served by the handler of its route.                             *)
(***************************************************************************)
Init ==
    /\ AppIdle
    /\ ValIdle
    /\ FnIdle

Receive(r) ==
    /\ route = "" \/ response # NoResponse
    /\ route' = r
    /\ req' = NoReq
    /\ response' = NoResponse
    /\ UNCHANGED <<valVars, fnVars>>

Metrics ==
    /\ route = "/metrics" /\ response = NoResponse
    /\ \E r \in MetricsFetches :
          /\ req' = r
          /\ response' = metrics(r)
    /\ UNCHANGED <<route, valVars, fnVars>>

Healthz ==
    /\ route = "/healthz" /\ response = NoResponse
    /\ \E r \in HealthzFetches :
          /\ req' = r
          /\ response' = healthz(r)
    /\ UNCHANGED <<route, valVars, fnVars>>

Index ==
    /\ route = "/" /\ response = NoResponse
    /\ response' = index
    /\ UNCHANGED <<route, req, valVars, fnVars>>

Next ==
    \/ \E r \in Routes : Receive(r)
    \/ Metrics
    \/ Healthz
    \/ Index

Spec == Init /\ [][Next]_vars

(***************************************************************************)
(* Claims about val2base (checked under SpecVal).                          *)
(***************************************************************************)
AllDigits(t) == t # <<>> /\ \A i \in 1..Len(t) : t[i] \in Digits

\* s is one or more digits followed by suffix, letters compared without case
DigitsThen(s, suffix) ==
    LET n == Len(s) - Len(suffix)
    IN  /\ n >= 1
        /\ AllDigits(SubSeq(s, 1, n))
        /\ \A i \in 1..Len(suffix) : Lower(s[n + i]) = suffix[i]

NumberBefore(s, suffix) == SubSeq(s, 1, Len(s) - Len(suffix))

\* the positions of the 'm' that split s as <digits>m<digits>s
MinSecSplits(s) ==
    {p \in 2..(Len(s) - 2) :
        /\ Lower(s[p]) = "m"
        /\ Lower(s[Len(s)]) = "s"
        /\ AllDigits(SubSeq(s, 1, p - 1))
        /\ AllDigits(SubSeq(s, p + 1, Len(s) - 1))}

\* least significant digit first: a + b + carry
RECURSIVE AddLE(_, _, _)
AddLE(a, b, carry) ==
    IF a = <<>> /\ b = <<>>
    THEN IF carry = 0 THEN <<>> ELSE <<carry>>
    ELSE LET x == IF a = <<>> THEN 0 ELSE Head(a)
             y == IF b = <<>> THEN 0 ELSE Head(b)
             t == x + y + carry
         IN  <<t % 10>> \o AddLE(IF a = <<>> THEN a ELSE Tail(a),
                                  IF b = <<>> THEN b ELSE Tail(b), t \div 10)

IntAdd(a, b) == StripZeros(Reverse(AddLE(Reverse(a), Reverse(b), 0)))

\* the function the specification describes
Normalize(s) ==
    IF DigitsThen(s, <<"k", "i">>)
    THEN RetInt(IntMul(int(NumberBefore(s, <<"k", "i">>)), 1024))
    ELSE IF DigitsThen(s, <<"m", "i">>)
    THEN RetInt(IntMul(IntMul(int(NumberBefore(s, <<"m", "i">>)), 1024), 1024))
    ELSE IF DigitsThen(s, <<"g", "i">>)
    THEN RetInt(IntMul(IntMul(IntMul(int(NumberBefore(s, <<"g", "i">>)), 1024), 1024), 1024))
    ELSE IF MinSecSplits(s) # {}
    THEN LET p == CHOOSE q \in MinSecSplits(s) : TRUE
         IN  RetInt(IntAdd(IntMul(int(SubSeq(s, 1, p - 1)), 60),
                           int(SubSeq(s, p + 1, Len(s) - 1))))
    ELSE IF DigitsThen(s, <<"m">>)
    THEN RetInt(IntMul(int(NumberBefore(s, <<"m">>)), 60))
    ELSE RetStr(s)

\* C2: val2base returns for every string, and returns n*1024, n*1024^2,
\* n*1024^3 for <digits>Ki/Mi/Gi, minutes*60+seconds for <digits>m<digits>s,
\* minutes*60 for <digits>m, and the string itself otherwise.
C2_NormalizeIsReference ==
    ret # Pending => ret.kind # "raise" /\ ret = Normalize(string)

\* the patterns, numbered as the return statements they guard
Patterns == {ReturnKi, ReturnMi, ReturnGi, ReturnMinSec, ReturnMin}

Search(p, s) ==
    CASE p = ReturnKi -> SearchKi(s)
      [] p = ReturnMi -> SearchMi(s)
      [] p = ReturnGi -> SearchGi(s)
      [] p = ReturnMinSec -> SearchMinSec(s)
      [] p = ReturnMin -> SearchMin(s)

Value(p, val) ==
    CASE p = ReturnKi -> ValueKi(val)
      [] p = ReturnMi -> ValueMi(val)
      [] p = ReturnGi -> ValueGi(val)
      [] p = ReturnMinSec -> ValueMinSec(val)
      [] p = ReturnMin -> ValueMin(val)

Matching(s) == {p \in Patterns : Search(p, s).matched}

\* C10: at most one of the five patterns matches a string, so whichever
\* pattern is tried first the outcome is the one val2base gives (a matching
\* pattern is the one that returns, with its value; with no match the string
\* is returned); a minutes-and-seconds string and a Mi string are never
\* handled by the minutes-only pattern.
C10_PatternsExclusive ==
    ret # Pending =>
        /\ Cardinality(Matching(string)) <= 1
        /\ \A p \in Matching(string) :
              branch = p /\ ret = Value(p, Search(p, string))
        /\ (Matching(string) = {} => branch = ReturnString /\ ret = RetStr(string))
        /\ (SearchMinSec(string).matched => branch # ReturnMin)
        /\ (SearchMi(string).matched => branch # ReturnMin)

\* a minutes-and-seconds string has been handled, by its own pattern
C10_Witness ==
    /\ ret # Pending
    /\ SearchMinSec(string).matched
    /\ branch = ReturnMinSec

(***************************************************************************)
(* Claims about json2dict and the renderers (checked under SpecRender).    *)
(***************************************************************************)
Called == result.exc # "not called"
IsRenderer == fn \in {"trans_node_metrics", "trans_pod_metrics"}

\* the text is a JSON object whose items is a list
HasItemsList(a) ==
    /\ a.valid
    /\ a.doc.t = "dict"
    /\ "items" \in DOMAIN a.doc.d
    /\ a.doc.d["items"].t = "list"

ItemsList(a) == a.doc.d["items"].l

IsSeriesOf(x, name) == x.kind = "series" /\ x.name = name
CpuName == IF fn = "trans_node_metrics" THEN NodeName("cpu") ELSE PodName("cpu")
MemName == IF fn = "trans_node_metrics" THEN NodeName("mem") ELSE PodName("mem")
CpuSeries(lines) == SelectSeq(lines, LAMBDA x : IsSeriesOf(x, CpuName))
MemSeries(lines) == SelectSeq(lines, LAMBDA x : IsSeriesOf(x, MemName))

\* the string at key k of object x, the empty string when the key is missing
Opt(x, k) == IF k \in DOMAIN x.d THEN x.d[k].s ELSE <<>>
\* the same one level down: missing when either key is missing
Opt2(x, k1, k2) == IF k1 \in DOMAIN x.d THEN Opt(x.d[k1], k2) ELSE <<>>

UsageKey(f) == IF f = "cpu" THEN "cpu" ELSE "memory"

NodeLabels(item, f) ==
    << Label("node", Opt2(item, "metadata", "name")),
       Label("created", Opt2(item, "metadata", "creationTimestamp")),
       Label("timestamp", Opt(item, "timestamp")),
       Label("window", Opt(item, "window")),
       Label("debugval", Opt2(item, "usage", UsageKey(f))) >>

PodLabels(pod, cont, f) ==
    << Label("pod", Opt2(pod, "metadata", "name")),
       Label("container", Opt(cont, "name")),
       Label("namespace", Opt2(pod, "metadata", "namespace")),
       Label("created", Opt2(pod, "metadata", "creationTimestamp")),
       Label("timestamp", Opt(pod, "timestamp")),
       Label("window", Opt(pod, "window")),
       Label("debugval", Opt2(cont, "usage", UsageKey(f))) >>

Containers(pod) == IF "containers" \in DOMAIN pod.d THEN pod.d["containers"].l ELSE <<>>

\* the (pod, container) pairs of a list of pods: pods in order, and the
\* containers of a pod in order
RECURSIVE Pairs(_)
Pairs(pods) ==
    IF pods = <<>> THEN <<>>
    ELSE [i \in 1..Len(Containers(Head(pods))) |->
             [pod |-> Head(pods), cont |-> Containers(Head(pods))[i]]]
         \o Pairs(Tail(pods))

\* how the value normalize(raw) is printed
Printed(raw) == FormatVal(Normalize(raw))

\* C3: json2dict returns, and for an input that is not a JSON object ("",
\* "{", "not json", "null", ...) it returns a document on which the
\* renderers' lookup data.get('items', []) gives the empty sequence.
C3_DecodeGivesEmptyItems ==
    (fn = "json2dict" /\ Called /\ ~(arg.valid /\ arg.doc.t = "dict")) =>
        /\ result.exc = ""
        /\ get(result.v, "items", EmptyList) = Ok(EmptyList)

\* the items of C4: objects with every field or with fields missing
MissingNodeItems == NodeGood \cup NodeMissing
MissingContainers ==
    ContGood \cup {Drop(ContBase, "name"), Drop(ContBase, "usage"),
                   DropIn(ContBase, "usage", "cpu"), DropIn(ContBase, "usage", "memory"),
                   EmptyDict}
IsMissingPod(pod) ==
    /\ pod.t = "dict"
    /\ "containers" \in DOMAIN pod.d => pod.d["containers"].t = "list"
    /\ \A i \in 1..Len(Containers(pod)) : Containers(pod)[i] \in MissingContainers

C4_Case ==
    /\ IsRenderer /\ Called /\ HasItemsList(arg)
    /\ fn = "trans_node_metrics" =>
          \A i \in 1..Len(ItemsList(arg)) : ItemsList(arg)[i] \in MissingNodeItems
    /\ fn = "trans_pod_metrics" =>
          \A i \in 1..Len(ItemsList(arg)) : IsMissingPod(ItemsList(arg)[i])

\* C4: in both renderers an item with fields missing, at any level, raises
\* nothing and still gives its cpu line and its mem line, with the empty
\* string as the label or value of every missing field.
C4_MissingFieldsRenderEmpty ==
    C4_Case =>
        /\ result.exc = ""
        /\ fn = "trans_node_metrics" =>
              /\ Len(CpuSeries(result.lines)) = Len(ItemsList(arg))
              /\ Len(MemSeries(result.lines)) = Len(ItemsList(arg))
              /\ \A i \in 1..Len(ItemsList(arg)) :
                    /\ CpuSeries(result.lines)[i].labels = NodeLabels(ItemsList(arg)[i], "cpu")
                    /\ MemSeries(result.lines)[i].labels = NodeLabels(ItemsList(arg)[i], "mem")
                    /\ (Opt2(ItemsList(arg)[i], "usage", "cpu") = <<>>
                          => CpuSeries(result.lines)[i].value = <<>>)
                    /\ (Opt2(ItemsList(arg)[i], "usage", "memory") = <<>>
                          => MemSeries(result.lines)[i].value = <<>>)
        /\ fn = "trans_pod_metrics" =>
              /\ Len(CpuSeries(result.lines)) = Len(Pairs(ItemsList(arg)))
              /\ Len(MemSeries(result.lines)) = Len(Pairs(ItemsList(arg)))
              /\ \A i \in 1..Len(Pairs(ItemsList(arg))) :
                    /\ CpuSeries(result.lines)[i].labels
                          = PodLabels(Pairs(ItemsList(arg))[i].pod, Pairs(ItemsList(arg))[i].cont, "cpu")
                    /\ MemSeries(result.lines)[i].labels
                          = PodLabels(Pairs(ItemsList(arg))[i].pod, Pairs(ItemsList(arg))[i].cont, "mem")

\* the texts of C5: not JSON, an object without items, an object whose
\* items is not a list, an object whose items is the empty list
NoUsableItems(a) == a \in BadTexts \cup NoListTexts \cup {ItemsText(<<>>)}

FourHeaders ==
    IF fn = "trans_node_metrics"
    THEN << Header("HELP", "kube_metrics_server_node_cpu", "The CPU time of a node in seconds."),
            Header("TYPE", "kube_metrics_server_node_cpu", "gauge"),
            Header("HELP", "kube_metrics_server_node_mem", "The memory of a node in Bytes."),
            Header("TYPE", "kube_metrics_server_node_mem", "gauge") >>
    ELSE << Header("HELP", "kube_metrics_server_pod_cpu", "The CPU time of a pod in seconds."),
            Header("TYPE", "kube_metrics_server_pod_cpu", "gauge"),
            Header("HELP", "kube_metrics_server_pod_mem", "The memory of a pod in Bytes."),
            Header("TYPE", "kube_metrics_server_pod_mem", "gauge") >>

\* C5: when the document has no usable item list (decoding failed, items
\* absent, items not a list, items empty) each renderer returns exactly the
\* four header lines: cpu HELP, cpu TYPE, mem HELP, mem TYPE.
C5_NoItemsGivesFourHeaders ==
    (IsRenderer /\ Called /\ NoUsableItems(arg)) =>
        result.exc = "" /\ result.lines = FourHeaders

\* well-formed nodes: every field present, usage strings of any form
WellFormedNodes == NodeGood \cup {NodeMinSec}

\* C6: for N well-formed nodes trans_node_metrics gives 4 + 2N lines, N cpu
\* series and N mem series; the i-th of each describes the i-th item, with
\* the labels node, created, timestamp, window, debugval in that order,
\* debugval the raw usage string and the value normalize(raw); cpu "250m"
\* renders 15000 and memory "2048Ki" renders 2097152.
C6_NodeSeriesPerItem ==
    (/\ fn = "trans_node_metrics" /\ Called /\ HasItemsList(arg)
     /\ \A i \in 1..Len(ItemsList(arg)) : ItemsList(arg)[i] \in WellFormedNodes) =>
        /\ result.exc = ""
        /\ Len(result.lines) = 4 + 2 * Len(ItemsList(arg))
        /\ Len(CpuSeries(result.lines)) = Len(ItemsList(arg))
        /\ Len(MemSeries(result.lines)) = Len(ItemsList(arg))
        /\ \A i \in 1..Len(ItemsList(arg)) :
              /\ CpuSeries(result.lines)[i].labels = NodeLabels(ItemsList(arg)[i], "cpu")
              /\ MemSeries(result.lines)[i].labels = NodeLabels(ItemsList(arg)[i], "mem")
              /\ CpuSeries(result.lines)[i].value
                    = Printed(Opt2(ItemsList(arg)[i], "usage", "cpu"))
              /\ MemSeries(result.lines)[i].value
                    = Printed(Opt2(ItemsList(arg)[i], "usage", "memory"))
              /\ (ItemsList(arg)[i] = NodeBase =>
                    /\ CpuSeries(result.lines)[i].value = <<"1", "5", "0", "0", "0">>
                    /\ MemSeries(result.lines)[i].value = <<"2", "0", "9", "7", "1", "5", "2">>)

\* pods that are objects whose containers, when present, is a list of objects
IsPodOfContainers(pod) ==
    /\ pod.t = "dict"
    /\ "containers" \in DOMAIN pod.d => pod.d["containers"].t = "list"
    /\ \A i \in 1..Len(Containers(pod)) : Containers(pod)[i].t = "dict"
    /\ "metadata" \in DOMAIN pod.d

\* C7: trans_pod_metrics gives one cpu line and one mem line per (pod,
\* container) pair, pods in document order and containers in order within a
\* pod, each line with its pod's labels and its container's name; a pod
\* without containers gives no line and no error, so both counts equal the
\* number of containers.
C7_PodSeriesPerContainer ==
    (/\ fn = "trans_pod_metrics" /\ Called /\ HasItemsList(arg)
     /\ \A i \in 1..Len(ItemsList(arg)) : IsPodOfContainers(ItemsList(arg)[i])) =>
        /\ result.exc = ""
        /\ Len(CpuSeries(result.lines)) = Len(Pairs(ItemsList(arg)))
        /\ Len(MemSeries(result.lines)) = Len(Pairs(ItemsList(arg)))
        /\ \A i \in 1..Len(Pairs(ItemsList(arg))) :
              /\ CpuSeries(result.lines)[i].labels
                    = PodLabels(Pairs(ItemsList(arg))[i].pod, Pairs(ItemsList(arg))[i].cont, "cpu")
              /\ MemSeries(result.lines)[i].labels
                    = PodLabels(Pairs(ItemsList(arg))[i].pod, Pairs(ItemsList(arg))[i].cont, "mem")

IsHeaderOf(x, name) == x.kind \in {"HELP", "TYPE"} /\ x.name = name
IsOf(x, name) == x.name = name

\* C8: in what either renderer returns, the HELP and TYPE lines of a family
\* come before every series line of that family, and every line of the cpu
\* family comes before every line of the mem family.
C8_HeadersFirstCpuBeforeMem ==
    (IsRenderer /\ Called /\ result.exc = "") =>
        /\ \A i, j \in 1..Len(result.lines) :
              /\ (IsSeriesOf(result.lines[i], CpuName) /\ IsHeaderOf(result.lines[j], CpuName))
                    => j < i
              /\ (IsSeriesOf(result.lines[i], MemName) /\ IsHeaderOf(result.lines[j], MemName))
                    => j < i
              /\ (IsOf(result.lines[i], CpuName) /\ IsOf(result.lines[j], MemName)) => i < j
        /\ \A i \in 1..Len(result.lines) :
              IsOf(result.lines[i], CpuName) \/ IsOf(result.lines[i], MemName)
        /\ \E i, j \in 1..Len(result.lines) :
              /\ result.lines[i].kind = "HELP" /\ IsOf(result.lines[i], CpuName)
              /\ result.lines[j].kind = "HELP" /\ IsOf(result.lines[j], MemName)

\* a pod document has been rendered with several series lines in each family
C8_Witness ==
    /\ fn = "trans_pod_metrics" /\ Called /\ result.exc = ""
    /\ Len(CpuSeries(result.lines)) >= 2
    /\ Len(MemSeries(result.lines)) >= 2

(***************************************************************************)
(* Claims about the application (checked under Spec).                      *)
(***************************************************************************)
Responded == response # NoResponse
BothFetched == req.nodes.exc = "" /\ req.pods.exc = ""

\* C1: whatever the two upstream texts are, /metrics raises nothing: both
\* renderers return a text and the response is their texts joined by a
\* newline, with status 200 and type text/plain.
C1_MetricsNeverFails ==
    (route = "/metrics" /\ Responded /\ BothFetched) =>
        /\ trans_node_metrics(req.nodes.text).exc = ""
        /\ trans_pod_metrics(req.pods.text).exc = ""
        /\ response.status = 200
        /\ response.mimetype = "text/plain"
        /\ response.body = trans_node_metrics(req.nodes.text).lines
                              \o trans_pod_metrics(req.pods.text).lines

\* C9: /healthz answers 200 "ok" exactly when both upstream responses have
\* status 200 and 503 "failed" for every other pair of statuses; status and
\* body never disagree.
C9_HealthzVerdict ==
    (route = "/healthz" /\ Responded) =>
        /\ BothFetched =>
              IF req.nodes.status_code = 200 /\ req.pods.status_code = 200
              THEN response = Response(<<Plain("ok")>>, 200, "text/plain")
              ELSE response = Response(<<Plain("failed")>>, 503, "text/plain")
        /\ ~(response.status = 200 /\ response.body = <<Plain("failed")>>)
        /\ ~(response.status = 503 /\ response.body = <<Plain("ok")>>)

\* /healthz has answered 503 where only the nodes endpoint did not answer 200
C9_Witness ==
    /\ route = "/healthz" /\ Responded /\ BothFetched
    /\ req.nodes.status_code # 200 /\ req.pods.status_code = 200
    /\ response.status = 503

====
